---- MODULE Spec2Model ----
(***************************************************************************)
(* Model of the garage door service (src/app.py): the Flask handlers, the  *)
(* bearer-token gate, the relay lock and the GPIO lines.  Every request is *)
(* served by its own worker; a worker's position in its handler is pc[w].  *)
(*                                                                         *)
(* Time is counted in ticks, TicksPerSecond of them to a second, so that   *)
(* the truncation of datetimes to whole seconds done by jwt.encode is      *)
(* visible.                                                                *)
(***************************************************************************)
EXTENDS Integers, Sequences, FiniteSets, TLC

(* ------------------------------ bounds -------------------------------- *)
NumWorkers == 2
MaxRequests == 2
TicksPerSecond == 2
MaxSmallTicks == 2
MaxJumps == 1
MaxIssued == 1

(* ------------------------- program constants -------------------------- *)
PIN_DOWN_SENSOR == 20
PIN_UP_SENSOR == 21
PIN_DOOR_CONTROL == 16
PIN_BUZZER == 19
TOKEN_LIFETIME_MIN == 30
PULSE_MS == 500

SECRET_KEY == "SECRET_KEY"
USER_NAME == "USER_NAME"
USER_PASSWORD == "USER_PASSWORD"

LOW == "LOW"
HIGH == "HIGH"
Level == {LOW, HIGH}
InPins == {PIN_DOWN_SENSOR, PIN_UP_SENSOR}
OutPins == {PIN_DOOR_CONTROL, PIN_BUZZER}

Workers == 1..NumWorkers
Free == 0
NONE == "NONE"

VARIABLES
    pc,          \* pc[w]: where worker w is in its request
    req,         \* req[w]: the request worker w is serving
    resp,        \* resp[w]: the response worker w has produced
    auth,        \* auth[w]: outcome of the token gate for the request
    act,         \* act[w]: the (pin, duration) argument of activate_gpio_pin
    exc,         \* exc[w]: TRUE while an exception propagates in worker w
    rdDown,      \* rdDown[w]: level this request read from the down sensor
    rdUp,        \* rdUp[w]: level this request read from the up sensor
    snap,        \* snap[w]: both sensor lines when door_status made its first read
    writes,      \* writes[w]: the gpio.output calls made by this request
    acquired,    \* acquired[w]: how often this request took relay_lock
    relay_lock,  \* holder of relay_lock, Free when nobody holds it
    pinLevel,    \* level the output lines are driven to
    sensor,      \* level of the two sensor lines (set by the door)
    now,         \* the clock, in ticks
    issued,      \* tokens handed out by get_token
    issuedAt,    \* <<token, clock reading>> of every get_token that signed one
    served,      \* requests accepted so far
    pulses       \* number of pulses completed (HIGH written, then LOW)

vars == <<pc, req, resp, auth, act, exc, rdDown, rdUp, snap, writes, acquired,
          relay_lock, pinLevel, sensor, now, issued, issuedAt, served, pulses>>

(* ------------------------------- time --------------------------------- *)
\* datetime.timedelta(minutes=30), in ticks                      (app.py:160)
LifetimeTicks == TOKEN_LIFETIME_MIN * 60 * TicksPerSecond

\* The clock when the service starts: some instant after the epoch that is
\* not on a whole second.
BootTime == LifetimeTicks + TicksPerSecond + 1

\* One long step of the clock: one second less than a token's lifetime.
Jump == LifetimeTicks - TicksPerSecond

\* Timegm as it would be if it rounded up to the next whole second.
TimegmRoundingUp(t) == (t + TicksPerSecond - 1) \div TicksPerSecond

\* jwt.encode turns a datetime claim into whole seconds since the epoch
\* (calendar.timegm of the UTC time tuple): the fraction is dropped.
Timegm(t) == t \div TicksPerSecond

(* ------------------------------ tokens -------------------------------- *)
\* The MAC of a token: it matches only when recomputed with the same key over
\* the same algorithm and claims.
Mac(key, alg, claims) == [key |-> key, alg |-> alg, claims |-> claims]

\* jwt.encode(payload, key, algorithm="HS256")                   (app.py:162)
JwtEncode(payload, key) ==
    LET claims == [sub |-> payload.sub,
                   iat |-> Timegm(payload.iat),
                   nbf |-> Timegm(payload.nbf),
                   exp |-> Timegm(payload.exp)]
    IN  [form |-> "jws", alg |-> "HS256", claims |-> claims,
         sig |-> Mac(key, "HS256", claims)]

\* TokenPayload with an expiry one second further out.
TokenPayloadLonger(user, t) ==
    [sub |-> user, iat |-> t, nbf |-> t,
     exp |-> t + LifetimeTicks + TicksPerSecond]

\* The payload get_token builds at clock value t               (app.py:155-161)
TokenPayload(user, t) ==
    [sub |-> user, iat |-> t, nbf |-> t, exp |-> t + LifetimeTicks]

NoClaims == [sub |-> NONE, iat |-> 0, nbf |-> 0, exp |-> 0]

\* JwtDecode as it would be if a token were still good at its expiry instant.
JwtDecodeLateExpiry(token, key, t) ==
    LET fail(e) == [error |-> e, claims |-> NoClaims] IN
    IF token.form # "jws" THEN fail("DecodeError")
    ELSE IF token.alg # "HS256" THEN fail("InvalidAlgorithmError")
    ELSE IF token.sig # Mac(key, token.alg, token.claims)
         THEN fail("InvalidSignatureError")
    ELSE IF token.claims.iat * TicksPerSecond > t
         THEN fail("ImmatureSignatureError")
    ELSE IF token.claims.nbf * TicksPerSecond > t
         THEN fail("ImmatureSignatureError")
    ELSE IF token.claims.exp * TicksPerSecond < t
         THEN fail("ExpiredSignatureError")
    ELSE [error |-> "none", claims |-> token.claims]

\* jwt.decode(token, key, algorithms=["HS256"]) at clock value t: the error it
\* raises ("none" when it returns) and the claims it returns.  The checks run
\* in PyJWT's order: token shape, algorithm, signature, then iat, nbf, exp
\* against the current time taken as a fractional number of seconds.
JwtDecode(token, key, t) ==
    LET fail(e) == [error |-> e, claims |-> NoClaims] IN
    IF token.form # "jws" THEN fail("DecodeError")
    ELSE IF token.alg # "HS256" THEN fail("InvalidAlgorithmError")
    ELSE IF token.sig # Mac(key, token.alg, token.claims)
         THEN fail("InvalidSignatureError")
    ELSE IF token.claims.iat * TicksPerSecond > t
         THEN fail("ImmatureSignatureError")
    ELSE IF token.claims.nbf * TicksPerSecond > t
         THEN fail("ImmatureSignatureError")
    ELSE IF token.claims.exp * TicksPerSecond <= t
         THEN fail("ExpiredSignatureError")
    ELSE [error |-> "none", claims |-> token.claims]

\* str.lower() on the scheme words that occur
Lower(word) ==
    CASE word \in {"Bearer", "bearer", "BEARER"} -> "bearer"
      [] word \in {"Basic", "basic"} -> "basic"
      [] OTHER -> word

\* TokenRequired as it would be without the ExpiredSignatureError clause:
\* every decode failure is "Invalid token".
TokenRequiredOneError(parts, t) ==
    LET bearer == Len(parts) = 2 /\ Lower(parts[1]) = "bearer" IN
    IF ~bearer THEN [outcome |-> "missing", error |-> "Token required"]
    ELSE LET d == JwtDecode(parts[2], SECRET_KEY, t) IN
         IF d.error = "none" THEN [outcome |-> "ok", error |-> NONE]
         ELSE [outcome |-> "invalid", error |-> "Invalid token"]

\* The body of token_required's decorator up to the call of the handler: the
\* header is the list of words authz.split() yields.  Returns the outcome
\* ("ok" when the handler is called) and the 401 body otherwise.
                                                               \* (app.py:93-109)
TokenRequired(parts, t) ==
    LET bearer == Len(parts) = 2 /\ Lower(parts[1]) = "bearer" IN
    IF ~bearer THEN [outcome |-> "missing", error |-> "Token required"]
    ELSE LET d == JwtDecode(parts[2], SECRET_KEY, t) IN
         IF d.error = "none" THEN [outcome |-> "ok", error |-> NONE]
         ELSE IF d.error = "ExpiredSignatureError"
              THEN [outcome |-> "expired", error |-> "Token expired"]
         ELSE [outcome |-> "invalid", error |-> "Invalid token"]

(* --------------------------- credentials ------------------------------ *)
\* werkzeug's generate_password_hash / check_password_hash
PasswordHash(password) == [hashOf |-> password]
CheckPasswordHash(hash, password) == hash = PasswordHash(password)

\* users = {USER_NAME: generate_password_hash(USER_PASSWORD)}    (app.py:74-76)
users == [u \in {USER_NAME} |-> PasswordHash(USER_PASSWORD)]

\* verify_password that only looks the username up.
VerifyPasswordNameOnly(username, password) ==
    IF username \in DOMAIN users THEN username ELSE NONE

\* verify_password: the username, or NONE (Python's None)        (app.py:78-81)
VerifyPassword(username, password) ==
    IF username \in DOMAIN users /\ CheckPasswordHash(users[username], password)
    THEN username
    ELSE NONE

(* ------------------------- request inputs ----------------------------- *)
\* Issue times of the tokens a client may hold from earlier: long ago, at
\* boot, and (a clock that was ahead) in the future.
CraftTimes == {0, BootTime, BootTime + 2 * LifetimeTicks}

GoodToken == JwtEncode(TokenPayload(USER_NAME, BootTime), SECRET_KEY)

\* Tokens a client may present besides the issued ones: well-signed ones of
\* the shape get_token produces, the same signed with another key, one whose
\* expiry was edited after signing, one with another algorithm, and garbage.
CraftedTokens ==
    {JwtEncode(TokenPayload(USER_NAME, T), k) :
        T \in CraftTimes, k \in {SECRET_KEY, "other key"}}
    \cup {[GoodToken EXCEPT !.claims.exp = @ + 60]}
    \cup {[GoodToken EXCEPT !.alg = "none"]}
    \cup {[GoodToken EXCEPT !.form = "garbage"]}

\* Authorization headers, as the words split() yields
Headers(tokens) ==
    {<<>>, <<"Bearer">>, <<"Basic", GoodToken>>, <<"Bearer", GoodToken, GoodToken>>,
     <<"bearer", GoodToken>>}
    \cup {<<"Bearer", t>> : t \in tokens}

\* Basic credentials of a login: NONE when the request carries none
Logins ==
    {[username |-> u, password |-> p] :
        u \in {USER_NAME, "mallory", ""}, p \in {USER_PASSWORD, "guess", ""}}

(* ---------------------------- the service ----------------------------- *)
NoLogin == [username |-> NONE, password |-> NONE]
NoToken == [form |-> "absent", alg |-> NONE, claims |-> NoClaims,
            sig |-> Mac(NONE, NONE, NoClaims)]
NoReq == [endpoint |-> NONE, hdr |-> <<>>, login |-> NoLogin, at |-> 0]

\* A request to endpoint e with Authorization words hdr or Basic credentials
\* login, arriving when the clock reads t
Request(e, hdr, login, t) == [endpoint |-> e, hdr |-> hdr, login |-> login, at |-> t]
NoResp == [code |-> 0, body |-> NONE, token |-> NoToken]
NoAct == [pin |-> 0, duration |-> 0]
NoSnap == [p \in InPins |-> NONE]

Response(code, body) == [code |-> code, body |-> body, token |-> NoToken]

\* handle_exception: what any exception escaping a handler becomes
                                                             \* (app.py:146-149)
HandleException == Response(500, "An unexpected error occurred")

\* setup_gpio has run, no request is being served; the door is anywhere.
Init ==
    /\ pc = [w \in Workers |-> "idle"]
    /\ req = [w \in Workers |-> NoReq]
    /\ resp = [w \in Workers |-> NoResp]
    /\ auth = [w \in Workers |-> NONE]
    /\ act = [w \in Workers |-> NoAct]
    /\ exc = [w \in Workers |-> FALSE]
    /\ rdDown = [w \in Workers |-> NONE]
    /\ rdUp = [w \in Workers |-> NONE]
    /\ snap = [w \in Workers |-> NoSnap]
    /\ writes = [w \in Workers |-> <<>>]
    /\ acquired = [w \in Workers |-> 0]
    /\ relay_lock = Free
    /\ pinLevel = [p \in OutPins |-> LOW]
    /\ sensor \in [InPins -> Level]
    /\ now = BootTime
    /\ issued = {}
    /\ issuedAt = {}
    /\ served = 0
    /\ pulses = 0

\* A request goes to the first worker that is not serving one; what that
\* worker's previous request left is dropped.
Accept(w, r) ==
    /\ pc[w] \in {"idle", "done"}
    /\ \A v \in Workers : v < w => pc[v] \notin {"idle", "done"}
    /\ served < MaxRequests
    /\ served' = served + 1
    /\ req' = [req EXCEPT ![w] = r]
    /\ exc' = [exc EXCEPT ![w] = FALSE]
    /\ rdDown' = [rdDown EXCEPT ![w] = NONE]
    /\ rdUp' = [rdUp EXCEPT ![w] = NONE]
    /\ snap' = [snap EXCEPT ![w] = NoSnap]
    /\ writes' = [writes EXCEPT ![w] = <<>>]
    /\ acquired' = [acquired EXCEPT ![w] = 0]

\* The request ends with response r.
Finish(w, r) ==
    /\ pc' = [pc EXCEPT ![w] = "done"]
    /\ resp' = [resp EXCEPT ![w] = r]

\* POST /api/token: auth.login_required calls verify_password; get_token
\* signs a token for the user it returned.                    (app.py:152-164)
GetToken(w, login) ==
    LET user == VerifyPassword(login.username, login.password)
        token == JwtEncode(TokenPayload(user, now), SECRET_KEY)
    IN  /\ Accept(w, Request("get_token", <<>>, login, now))
        /\ auth' = [auth EXCEPT ![w] = NONE]
        /\ act' = [act EXCEPT ![w] = NoAct]
        /\ IF user = NONE
           THEN /\ Finish(w, Response(401, "Unauthorized Access"))
                /\ UNCHANGED <<issued, issuedAt>>
           ELSE /\ token \in issued \/ Cardinality(issued) < MaxIssued
                /\ Finish(w, [code |-> 200, body |-> "token", token |-> token])
                /\ issued' = issued \cup {token}
                /\ issuedAt' = issuedAt \cup {<<token, now>>}
        /\ UNCHANGED <<relay_lock, pinLevel, sensor, now, pulses>>

\* Protected as it would be without the decorator: the handler always runs.
ProtectedUngated(w, endpoint, hdr) ==
    LET t == TokenRequired(hdr, now) IN
    /\ Accept(w, Request(endpoint, hdr, NoLogin, now))
    /\ auth' = [auth EXCEPT ![w] = t.outcome]
    /\ act' = [act EXCEPT ![w] = NoAct]
    /\ pc' = [pc EXCEPT ![w] = endpoint]
    /\ resp' = [resp EXCEPT ![w] = NoResp]
    /\ UNCHANGED <<relay_lock, pinLevel, sensor, now, issued, issuedAt, pulses>>

\* A request to a route wrapped by token_required: the decorator answers 401
\* itself or calls the handler.                    (app.py:91-110, 166-201)
Protected(w, endpoint, hdr) ==
    LET t == TokenRequired(hdr, now) IN
    /\ Accept(w, Request(endpoint, hdr, NoLogin, now))
    /\ auth' = [auth EXCEPT ![w] = t.outcome]
    /\ act' = [act EXCEPT ![w] = NoAct]
    /\ IF t.outcome = "ok"
       THEN /\ pc' = [pc EXCEPT ![w] = endpoint]
            /\ resp' = [resp EXCEPT ![w] = NoResp]
       ELSE Finish(w, Response(401, t.error))
    /\ UNCHANGED <<relay_lock, pinLevel, sensor, now, issued, issuedAt, pulses>>

\* HealthCheck as it would be if it probed the relay under relay_lock.
HealthCheckUnderLock(w, hdr) ==
    /\ relay_lock = Free
    /\ Accept(w, Request("health_check", hdr, NoLogin, now))
    /\ auth' = [auth EXCEPT ![w] = NONE]
    /\ act' = [act EXCEPT ![w] = NoAct]
    /\ Finish(w, Response(200, "healthy"))
    /\ UNCHANGED <<relay_lock, pinLevel, sensor, now, issued, issuedAt, pulses>>

\* GET /health: no decorator, so whatever Authorization header the request
\* carries is never looked at.                               (app.py:203-206)
HealthCheck(w, hdr) ==
    /\ Accept(w, Request("health_check", hdr, NoLogin, now))
    /\ auth' = [auth EXCEPT ![w] = NONE]
    /\ act' = [act EXCEPT ![w] = NoAct]
    /\ Finish(w, Response(200, "healthy"))
    /\ UNCHANGED <<relay_lock, pinLevel, sensor, now, issued, issuedAt, pulses>>

\* activate_gpio_pin(pin, duration) is entered: the worker next waits for
\* relay_lock.                                              (app.py:123-125)
Activate(w, pin, duration) ==
    /\ act' = [act EXCEPT ![w] = [pin |-> pin, duration |-> duration]]
    /\ pc' = [pc EXCEPT ![w] = "acquire"]

\* toggle_door() as it would be with the buzzer's pin.
ToggleDoorOnBuzzerPin(w) == Activate(w, PIN_BUZZER, PULSE_MS)

\* toggle_door()                                            (app.py:113-115)
ToggleDoor(w) == Activate(w, PIN_DOOR_CONTROL, PULSE_MS)

\* A call of buzz_buzzer()                                  (app.py:118-120)
BuzzBuzzer(w) ==
    /\ Accept(w, Request("buzz_buzzer", <<>>, NoLogin, now))
    /\ auth' = [auth EXCEPT ![w] = NONE]
    /\ Activate(w, PIN_BUZZER, PULSE_MS)
    /\ resp' = [resp EXCEPT ![w] = NoResp]
    /\ UNCHANGED <<relay_lock, pinLevel, sensor, now, issued, issuedAt, pulses>>

\* An exception leaves the handler: Flask's error handler answers 500; a
\* bare call of buzz_buzzer has no handler around it and raises.
Raise(w) ==
    Finish(w, IF req[w].endpoint = "buzz_buzzer"
              THEN Response(0, "raised")
              ELSE HandleException)

\* is_door_up(): one gpio.input of the up sensor, triggered when LOW
                                                             \* (app.py:140-143)
IsDoorUp(levels) == levels[PIN_UP_SENSOR] = LOW

\* is_door_down()                                           (app.py:134-137)
IsDoorDown(levels) == levels[PIN_DOWN_SENSOR] = LOW

\* Worker w reads sensor line p with gpio.input.
ReadSensor(w, p) ==
    /\ IF p = PIN_UP_SENSOR
       THEN rdUp' = [rdUp EXCEPT ![w] = sensor[p]] /\ UNCHANGED rdDown
       ELSE rdDown' = [rdDown EXCEPT ![w] = sensor[p]] /\ UNCHANGED rdUp

\* DoorUp as it would be with the guard left out: the door is toggled whatever
\* the up sensor says.
DoorUpUnguarded(w, fault) ==
    /\ pc[w] = "door_up"
    /\ IF fault
       THEN Raise(w) /\ UNCHANGED <<act, rdDown, rdUp>>
       ELSE /\ ReadSensor(w, PIN_UP_SENSOR)
            /\ ToggleDoor(w) /\ UNCHANGED resp
    /\ UNCHANGED <<req, auth, exc, snap, writes, acquired, relay_lock, pinLevel,
                   sensor, now, issued, issuedAt, served, pulses>>

\* door_up answering at once, leaving the relay untouched.
DoorUpAnswersOnly(w, fault) ==
    /\ pc[w] = "door_up"
    /\ IF fault
       THEN Raise(w) /\ UNCHANGED <<act, rdDown, rdUp>>
       ELSE /\ ReadSensor(w, PIN_UP_SENSOR)
            /\ IF IsDoorUp(sensor)
               THEN Finish(w, Response(200, "Door is already up"))
               ELSE Finish(w, Response(200, "Door is going up"))
            /\ UNCHANGED act
    /\ UNCHANGED <<req, auth, exc, snap, writes, acquired, relay_lock, pinLevel,
                   sensor, now, issued, issuedAt, served, pulses>>

\* DoorUp as it would be if a failed sensor read counted as "not up".
DoorUpFailOpen(w, fault) ==
    /\ pc[w] = "door_up"
    /\ IF fault
       THEN ToggleDoor(w) /\ UNCHANGED <<resp, rdDown, rdUp>>
       ELSE /\ ReadSensor(w, PIN_UP_SENSOR)
            /\ IF IsDoorUp(sensor)
               THEN /\ Finish(w, Response(200, "Door is already up"))
                    /\ UNCHANGED act
               ELSE ToggleDoor(w) /\ UNCHANGED resp
    /\ UNCHANGED <<req, auth, exc, snap, writes, acquired, relay_lock, pinLevel,
                   sensor, now, issued, issuedAt, served, pulses>>

\* door_up: the guard, then the pulse is requested          (app.py:168-175)
DoorUp(w, fault) ==
    /\ pc[w] = "door_up"
    /\ IF fault
       THEN Raise(w) /\ UNCHANGED <<act, rdDown, rdUp>>
       ELSE /\ ReadSensor(w, PIN_UP_SENSOR)
            /\ IF IsDoorUp(sensor)
               THEN /\ Finish(w, Response(200, "Door is already up"))
                    /\ UNCHANGED act
               ELSE ToggleDoor(w) /\ UNCHANGED resp
    /\ UNCHANGED <<req, auth, exc, snap, writes, acquired, relay_lock, pinLevel,
                   sensor, now, issued, issuedAt, served, pulses>>

\* door_down                                                (app.py:179-186)
DoorDown(w, fault) ==
    /\ pc[w] = "door_down"
    /\ IF fault
       THEN Raise(w) /\ UNCHANGED <<act, rdDown, rdUp>>
       ELSE /\ ReadSensor(w, PIN_DOWN_SENSOR)
            /\ IF IsDoorDown(sensor)
               THEN /\ Finish(w, Response(200, "Door is already down"))
                    /\ UNCHANGED act
               ELSE ToggleDoor(w) /\ UNCHANGED resp
    /\ UNCHANGED <<req, auth, exc, snap, writes, acquired, relay_lock, pinLevel,
                   sensor, now, issued, issuedAt, served, pulses>>

\* The response after toggle_door() has returned       (app.py:174-175, 185-186)
Respond(w) ==
    /\ pc[w] = "activated"
    /\ Finish(w, IF req[w].endpoint = "door_up"
                 THEN Response(200, "Door is going up")
                 ELSE IF req[w].endpoint = "door_down"
                      THEN Response(200, "Door is going down")
                      ELSE Response(0, "returned"))
    /\ UNCHANGED <<req, auth, act, exc, rdDown, rdUp, snap, writes, acquired,
                   relay_lock, pinLevel, sensor, now, issued, issuedAt, served, pulses>>

\* DoorStatusDown as it would be if two triggered sensors were an error.
DoorStatusDownStrict(w, fault) ==
    /\ pc[w] = "door_status"
    /\ IF fault \/ (IsDoorDown(sensor) /\ IsDoorUp(sensor))
       THEN /\ Raise(w)
            /\ snap' = [snap EXCEPT ![w] = IF fault THEN @ ELSE sensor]
            /\ UNCHANGED <<rdDown, rdUp>>
       ELSE /\ ReadSensor(w, PIN_DOWN_SENSOR)
            /\ snap' = [snap EXCEPT ![w] = sensor]
            /\ IF IsDoorDown(sensor)
               THEN Finish(w, Response(200, "down"))
               ELSE /\ pc' = [pc EXCEPT ![w] = "door_status_up"]
                    /\ UNCHANGED resp
    /\ UNCHANGED <<req, auth, act, exc, writes, acquired, relay_lock, pinLevel,
                   sensor, now, issued, issuedAt, served, pulses>>

\* door_status, first test: is_door_down()                  (app.py:190-195)
DoorStatusDown(w, fault) ==
    /\ pc[w] = "door_status"
    /\ IF fault
       THEN Raise(w) /\ UNCHANGED <<rdDown, rdUp, snap>>
       ELSE /\ ReadSensor(w, PIN_DOWN_SENSOR)
            /\ snap' = [snap EXCEPT ![w] = sensor]
            /\ IF IsDoorDown(sensor)
               THEN Finish(w, Response(200, "down"))
               ELSE /\ pc' = [pc EXCEPT ![w] = "door_status_up"]
                    /\ UNCHANGED resp
    /\ UNCHANGED <<req, auth, act, exc, writes, acquired, relay_lock, pinLevel,
                   sensor, now, issued, issuedAt, served, pulses>>

\* DoorStatusUp as it would be if the sensor were read under relay_lock.
DoorStatusUpUnderLock(w, fault) ==
    /\ pc[w] = "door_status_up"
    /\ relay_lock = Free
    /\ IF fault
       THEN Raise(w) /\ UNCHANGED <<rdDown, rdUp>>
       ELSE /\ ReadSensor(w, PIN_UP_SENSOR)
            /\ Finish(w, Response(200, IF IsDoorUp(sensor)
                                       THEN "up" ELSE "in_transition"))
    /\ UNCHANGED <<req, auth, act, exc, snap, writes, acquired, relay_lock, pinLevel,
                   sensor, now, issued, issuedAt, served, pulses>>

\* DoorStatusUp as it would be with a remembered position: once a pulse has
\* been made the door is taken to have left its end stop.
DoorStatusUpRemembering(w, fault) ==
    /\ pc[w] = "door_status_up"
    /\ IF fault
       THEN Raise(w) /\ UNCHANGED <<rdDown, rdUp>>
       ELSE /\ ReadSensor(w, PIN_UP_SENSOR)
            /\ Finish(w, Response(200, IF IsDoorUp(sensor) /\ pulses = 0
                                       THEN "up" ELSE "in_transition"))
    /\ UNCHANGED <<req, auth, act, exc, snap, writes, acquired, relay_lock, pinLevel,
                   sensor, now, issued, issuedAt, served, pulses>>

\* door_status, second test: is_door_up()                   (app.py:196-201)
DoorStatusUp(w, fault) ==
    /\ pc[w] = "door_status_up"
    /\ IF fault
       THEN Raise(w) /\ UNCHANGED <<rdDown, rdUp>>
       ELSE /\ ReadSensor(w, PIN_UP_SENSOR)
            /\ Finish(w, Response(200, IF IsDoorUp(sensor)
                                       THEN "up" ELSE "in_transition"))
    /\ UNCHANGED <<req, auth, act, exc, snap, writes, acquired, relay_lock, pinLevel,
                   sensor, now, issued, issuedAt, served, pulses>>

\* Acquire as it would be if the with block did not wait for the lock.
AcquireWithoutWaiting(w) ==
    /\ pc[w] = "acquire"
    /\ relay_lock' = w
    /\ acquired' = [acquired EXCEPT ![w] = @ + 1]
    /\ pc' = [pc EXCEPT ![w] = "high"]
    /\ UNCHANGED <<req, resp, auth, act, exc, rdDown, rdUp, snap, writes,
                   pinLevel, sensor, now, issued, issuedAt, served, pulses>>

\* Acquire as it would be with the guard tested again once the lock is free:
\* a door_up finding the door up by now gives up its pulse.
AcquireRechecking(w) ==
    /\ pc[w] = "acquire"
    /\ relay_lock = Free
    /\ IF req[w].endpoint = "door_up" /\ IsDoorUp(sensor)
       THEN /\ Finish(w, Response(200, "Door is already up"))
            /\ UNCHANGED <<relay_lock, acquired>>
       ELSE /\ relay_lock' = w
            /\ acquired' = [acquired EXCEPT ![w] = @ + 1]
            /\ pc' = [pc EXCEPT ![w] = "high"]
            /\ UNCHANGED resp
    /\ UNCHANGED <<req, auth, act, exc, rdDown, rdUp, snap, writes,
                   pinLevel, sensor, now, issued, issuedAt, served, pulses>>

\* with relay_lock: entered once the lock is free             (app.py:125)
Acquire(w) ==
    /\ pc[w] = "acquire"
    /\ relay_lock = Free
    /\ relay_lock' = w
    /\ acquired' = [acquired EXCEPT ![w] = @ + 1]
    /\ pc' = [pc EXCEPT ![w] = "high"]
    /\ UNCHANGED <<req, resp, auth, act, exc, rdDown, rdUp, snap, writes,
                   pinLevel, sensor, now, issued, issuedAt, served, pulses>>

\* gpio.output(pin, value) by worker w
GpioOutput(w, pin, value) ==
    /\ pinLevel' = [pinLevel EXCEPT ![pin] = value]
    /\ writes' = [writes EXCEPT ![w] = Append(@, <<pin, value>>)]

\* gpio.output(pin, gpio.HIGH), before the try: RPi.GPIO raises from its
\* channel checks, which come before the line is driven, so a fault leaves the
\* line as it was and the exception leaves the with block.    (app.py:126)
WriteHigh(w, fault) ==
    /\ pc[w] = "high"
    /\ IF fault
       THEN /\ exc' = [exc EXCEPT ![w] = TRUE]
            /\ pc' = [pc EXCEPT ![w] = "release"]
            /\ UNCHANGED <<pinLevel, writes>>
       ELSE /\ GpioOutput(w, act[w].pin, HIGH)
            /\ pc' = [pc EXCEPT ![w] = "hold"]
            /\ UNCHANGED exc
    /\ UNCHANGED <<req, resp, auth, act, rdDown, rdUp, snap, acquired,
                   relay_lock, sensor, now, issued, issuedAt, served, pulses>>

\* Hold as it would be if the sleep were outside the with block: the lock is
\* free while the pin is held HIGH.
HoldOutsideLock(w, interrupted) ==
    /\ pc[w] = "hold"
    /\ relay_lock' = Free
    /\ exc' = [exc EXCEPT ![w] = interrupted]
    /\ pc' = [pc EXCEPT ![w] = "low"]
    /\ UNCHANGED <<req, resp, auth, act, rdDown, rdUp, snap, writes, acquired,
                   pinLevel, sensor, now, issued, issuedAt, served, pulses>>

\* time.sleep(duration) returns, or is interrupted by an exception; either
\* way the finally clause is next.                          (app.py:127-129)
Hold(w, interrupted) ==
    /\ pc[w] = "hold"
    /\ exc' = [exc EXCEPT ![w] = interrupted]
    /\ pc' = [pc EXCEPT ![w] = "low"]
    /\ UNCHANGED <<req, resp, auth, act, rdDown, rdUp, snap, writes, acquired,
                   relay_lock, pinLevel, sensor, now, issued, issuedAt, served, pulses>>

\* WriteLow as it would be without try/finally: an interrupted sleep skips
\* the LOW write.
WriteLowUnlessInterrupted(w) ==
    /\ pc[w] = "low"
    /\ IF exc[w]
       THEN UNCHANGED <<pinLevel, writes, pulses>>
       ELSE GpioOutput(w, act[w].pin, LOW) /\ pulses' = pulses + 1
    /\ pc' = [pc EXCEPT ![w] = "release"]
    /\ UNCHANGED <<req, resp, auth, act, exc, rdDown, rdUp, snap, acquired,
                   relay_lock, sensor, now, issued, issuedAt, served>>

\* finally: gpio.output(pin, gpio.LOW).  The channel is the one the HIGH
\* write just passed RPi.GPIO's checks on, so this write does not raise.
                                                                \* (app.py:130)
WriteLow(w) ==
    /\ pc[w] = "low"
    /\ GpioOutput(w, act[w].pin, LOW)
    /\ pulses' = pulses + 1
    /\ pc' = [pc EXCEPT ![w] = "release"]
    /\ UNCHANGED <<req, resp, auth, act, exc, rdDown, rdUp, snap, acquired,
                   relay_lock, sensor, now, issued, issuedAt, served>>

\* Release with acquire()/release() calls in place of the with block: an
\* exception skips the release.
ReleaseUnlessRaised(w) ==
    /\ pc[w] = "release"
    /\ relay_lock' = IF exc[w] THEN relay_lock ELSE Free
    /\ IF exc[w]
       THEN Raise(w)
       ELSE pc' = [pc EXCEPT ![w] = "activated"] /\ UNCHANGED resp
    /\ UNCHANGED <<req, auth, act, exc, rdDown, rdUp, snap, writes, acquired,
                   pinLevel, sensor, now, issued, issuedAt, served, pulses>>

\* Release as it would be after a bare relay_lock.acquire() that is never
\* matched by a release().
ReleaseKeepsLock(w) ==
    /\ pc[w] = "release"
    /\ IF exc[w]
       THEN Raise(w)
       ELSE pc' = [pc EXCEPT ![w] = "activated"] /\ UNCHANGED resp
    /\ UNCHANGED <<req, auth, act, exc, rdDown, rdUp, snap, writes, acquired,
                   relay_lock, pinLevel, sensor, now, issued, issuedAt, served,
                   pulses>>

\* The with block is left: the lock is released, and a pending exception goes
\* on to the caller.                                        (app.py:125-131)
Release(w) ==
    /\ pc[w] = "release"
    /\ relay_lock' = Free
    /\ IF exc[w]
       THEN Raise(w)
       ELSE pc' = [pc EXCEPT ![w] = "activated"] /\ UNCHANGED resp
    /\ UNCHANGED <<req, auth, act, exc, rdDown, rdUp, snap, writes, acquired,
                   pinLevel, sensor, now, issued, issuedAt, served, pulses>>

(* --------------------------- environment ------------------------------ *)
\* The door moves: a sensor line changes level.
SensorChange(p) ==
    /\ sensor' = [sensor EXCEPT ![p] = IF @ = LOW THEN HIGH ELSE LOW]
    /\ UNCHANGED <<pc, req, resp, auth, act, exc, rdDown, rdUp, snap, writes,
                   acquired, relay_lock, pinLevel, now, issued, issuedAt, served, pulses>>

\* The clock advances by d ticks.
Advance(d) ==
    /\ now' = now + d
    /\ UNCHANGED <<pc, req, resp, auth, act, exc, rdDown, rdUp, snap, writes,
                   acquired, relay_lock, pinLevel, sensor, issued, issuedAt, served,
                   pulses>>

\* One tick passes: at most MaxSmallTicks of them between long steps.
Tick ==
    /\ (now - BootTime) % Jump < MaxSmallTicks
    /\ Advance(1)

\* A long time passes.
LongWait ==
    /\ (now - BootTime) \div Jump < MaxJumps
    /\ Advance(Jump - ((now - BootTime) % Jump))

(* -------------------------- specifications ---------------------------- *)
Handler(w) ==
    \/ \E fault \in BOOLEAN : DoorUp(w, fault)
    \/ \E fault \in BOOLEAN : DoorDown(w, fault)
    \/ \E fault \in BOOLEAN : DoorStatusDown(w, fault)
    \/ \E fault \in BOOLEAN : DoorStatusUp(w, fault)
    \/ Acquire(w)
    \/ \E fault \in BOOLEAN : WriteHigh(w, fault)
    \/ \E interrupted \in BOOLEAN : Hold(w, interrupted)
    \/ WriteLow(w)
    \/ Release(w)
    \/ Respond(w)

ProtectedEndpoints == {"door_up", "door_down", "door_status"}

\* Requests of the concurrent service: with no token, a good one, an expired
\* one and a forged one; a right and a wrong login.
ServiceHeaders ==
    {<<>>, <<"Bearer", GoodToken>>,
     <<"Bearer", JwtEncode(TokenPayload(USER_NAME, 0), SECRET_KEY)>>,
     <<"Bearer", JwtEncode(TokenPayload(USER_NAME, BootTime), "other key")>>}

ServiceLogins ==
    {[username |-> USER_NAME, password |-> USER_PASSWORD],
     [username |-> USER_NAME, password |-> "guess"]}

\* The service under concurrent requests, at one instant of the clock.
Next ==
    \/ \E w \in Workers : \E login \in ServiceLogins : GetToken(w, login)
    \/ \E w \in Workers : \E e \in ProtectedEndpoints :
          \E h \in ServiceHeaders : Protected(w, e, h)
    \/ \E w \in Workers : \E h \in ServiceHeaders : HealthCheck(w, h)
    \/ \E w \in Workers : BuzzBuzzer(w)
    \/ \E w \in Workers : Handler(w)
    \/ \E p \in InPins : SensorChange(p)

Spec == Init /\ [][Next]_vars

\* The token gate over time: one client logs in and asks for the door's
\* status with whatever header it likes while the clock advances; the door
\* stands between its two sensors.
InitAuth == Init /\ sensor = [p \in InPins |-> HIGH]

NextAuth ==
    \/ Tick
    \/ LongWait
    \/ \E login \in Logins : GetToken(1, login)
    \/ \E h \in Headers(CraftedTokens \cup issued) : Protected(1, "door_status", h)
    \/ \E fault \in BOOLEAN : DoorStatusDown(1, fault)
    \/ \E fault \in BOOLEAN : DoorStatusUp(1, fault)

SpecAuth == InitAuth /\ [][NextAuth]_vars

\* The service under concurrent requests that carry a good token, the door
\* at rest: every request goes on to its handler.
NextLive ==
    \/ \E w \in Workers : \E e \in ProtectedEndpoints :
          Protected(w, e, <<"Bearer", GoodToken>>)
    \/ \E w \in Workers : BuzzBuzzer(w)
    \/ \E w \in Workers : Handler(w)

\* Every worker thread that can run is run in the end, and time.sleep
\* returns: a worker with a step to take takes one. threading.Lock promises
\* no order among the threads waiting for it, so nothing stronger is assumed
\* of Acquire than of the other steps.
Fairness == \A w \in Workers : WF_vars(Handler(w))

SpecLive == Init /\ [][NextLive]_vars /\ Fairness

(* ------------------------------ claims -------------------------------- *)
\* Worker w is between its HIGH write and its LOW write.
InFlight(w) == pc[w] \in {"hold", "low"}

\* C1: at most one relay pulse is in flight: the door-control pin and the
\* buzzer pin are never both HIGH, and no two calls of activate_gpio_pin are
\* between their HIGH write and their LOW write at the same time.
C1_OnePulseInFlight ==
    /\ ~(pinLevel[PIN_DOOR_CONTROL] = HIGH /\ pinLevel[PIN_BUZZER] = HIGH)
    /\ Cardinality({w \in Workers : InFlight(w)}) <= 1

\* A pulse is in flight while another call, for the other pin, waits.
C1_Witness ==
    \E w, v \in Workers :
        /\ InFlight(w) /\ pinLevel[act[w].pin] = HIGH
        /\ pc[v] = "acquire" /\ act[v].pin # act[w].pin

\* C2: a pin is at the active level only while the call that drove it holds
\* the lock and has its LOW write still ahead: the lock is never free, nor
\* held by another caller, while a pin is HIGH, also after a hold that failed.
C2_LowBeforeRelease ==
    \A p \in OutPins :
        pinLevel[p] = HIGH =>
            \E w \in Workers :
                relay_lock = w /\ act[w].pin = p /\ InFlight(w)

\* An activation whose hold was interrupted has finished: the request got its
\* 500, the pin is LOW again and the lock is free.
C2_Witness ==
    \E w \in Workers :
        /\ pc[w] = "done" /\ exc[w] /\ resp[w] = HandleException
        /\ writes[w] = <<<<act[w].pin, HIGH>>, <<act[w].pin, LOW>>>>
        /\ pinLevel[act[w].pin] = LOW
        /\ relay_lock = Free

\* The request of worker w has not touched the actuator.
NoActuation(w) == writes[w] = <<>> /\ acquired[w] = 0 /\ act[w] = NoAct

\* C3: a door_up whose is_door_up() read was true has returned "Door is
\* already up" without entering activate_gpio_pin: no lock taken, no pin
\* written; door_down likewise with is_door_down().
C3_AlreadyThereIsNoOp ==
    \A w \in Workers :
        /\ (req[w].endpoint = "door_up" /\ rdUp[w] = LOW) =>
               /\ pc[w] = "done"
               /\ resp[w] = Response(200, "Door is already up")
               /\ NoActuation(w)
        /\ (req[w].endpoint = "door_down" /\ rdDown[w] = LOW) =>
               /\ pc[w] = "done"
               /\ resp[w] = Response(200, "Door is already down")
               /\ NoActuation(w)

\* Every worker has answered a door_up with "Door is already up", and no
\* pulse was made.
C3_Witness ==
    /\ \A w \in Workers :
          /\ req[w].endpoint = "door_up" /\ rdUp[w] = LOW
          /\ resp[w].body = "Door is already up"
    /\ pulses = 0

\* C4: door_status answers from the sensor lines by the table
\* (down, up) = (triggered, -) -> "down", (clear, triggered) -> "up",
\* (clear, clear) -> "in_transition": a triggered down sensor gives "down"
\* with status 200 whatever the up sensor reads, also when both are triggered.
C4_StatusTable ==
    \A w \in Workers :
        req[w].endpoint = "door_status" =>
            /\ snap[w] # NoSnap => rdDown[w] = snap[w][PIN_DOWN_SENSOR]
            /\ (snap[w] # NoSnap /\ snap[w][PIN_DOWN_SENSOR] = LOW) =>
                   pc[w] = "done" /\ resp[w] = Response(200, "down")
            /\ (rdDown[w] = HIGH /\ rdUp[w] = LOW) =>
                   pc[w] = "done" /\ resp[w] = Response(200, "up")
            /\ (rdDown[w] = HIGH /\ rdUp[w] = HIGH) =>
                   pc[w] = "done" /\ resp[w] = Response(200, "in_transition")

\* A status request met both sensors triggered and answered "down".
C4_Witness ==
    \E w \in Workers :
        /\ req[w].endpoint = "door_status"
        /\ snap[w] = [p \in InPins |-> LOW]
        /\ resp[w] = Response(200, "down")

\* The request of worker w has read no sensor.
NoSensorRead(w) == rdDown[w] = NONE /\ rdUp[w] = NONE /\ snap[w] = NoSnap

\* C5: a request to door_up, door_down or door_status whose bearer token does
\* not verify when it arrives is answered 401 by the decorator and has read no
\* sensor, taken no lock and written no pin; so whatever a handler does
\* is done for a request whose token verified.
C5_AuthGatesActions ==
    \A w \in Workers :
        req[w].endpoint \in ProtectedEndpoints =>
            LET t == TokenRequired(req[w].hdr, req[w].at) IN
            /\ auth[w] = t.outcome
            /\ t.outcome # "ok" =>
                   /\ pc[w] = "done"
                   /\ resp[w] = Response(401, t.error)
                   /\ NoSensorRead(w)
                   /\ NoActuation(w)

\* A request with an expired token has its 401 while another request, with a
\* good token, is in the middle of its pulse.
C5_Witness ==
    \E w, v \in Workers :
        /\ req[w].endpoint = "door_up"
        /\ resp[w] = Response(401, "Token expired")
        /\ req[v].endpoint \in ProtectedEndpoints /\ InFlight(v)

\* The protected request of worker w got past the decorator.
Admitted(w) ==
    /\ req[w].endpoint \in ProtectedEndpoints
    /\ resp[w].code # 401

\* The token was signed with the process secret.
WellSigned(token) ==
    /\ token.form = "jws"
    /\ token.alg = "HS256"
    /\ token.sig = Mac(SECRET_KEY, "HS256", token.claims)

\* C6: a request is admitted only with a token signed with the process
\* secret and only at a time t with not-before <= t < expiry.
C6_AcceptedOnlyInWindow ==
    \A w \in Workers :
        Admitted(w) =>
            /\ Len(req[w].hdr) = 2
            /\ WellSigned(req[w].hdr[2])
            /\ req[w].hdr[2].claims.nbf * TicksPerSecond <= req[w].at
            /\ req[w].at < req[w].hdr[2].claims.exp * TicksPerSecond

\* A token that get_token issued is presented at the very instant of its
\* expiry and is refused.
C6_Witness ==
    \E w \in Workers :
        /\ req[w].endpoint \in ProtectedEndpoints
        /\ Len(req[w].hdr) = 2
        /\ req[w].hdr[2] \in issued
        /\ req[w].at = req[w].hdr[2].claims.exp * TicksPerSecond
        /\ resp[w] = Response(401, "Token expired")

\* C7: the token a successful login returns verifies at the clock value it
\* was issued at, and decoding it yields the user that logged in.
C7_IssueThenVerify ==
    \A w \in Workers :
        (req[w].endpoint = "get_token" /\ resp[w].code = 200) =>
            LET d == JwtDecode(resp[w].token, SECRET_KEY, req[w].at) IN
            /\ d.error = "none"
            /\ d.claims.sub = req[w].login.username
            /\ TokenRequired(<<"Bearer", resp[w].token>>, req[w].at).outcome = "ok"

\* A token issued by get_token is presented before the clock has moved, at an
\* instant that is not a whole second, and the request is admitted.
C7_Witness ==
    \E w \in Workers :
        /\ Admitted(w) /\ pc[w] # "idle"
        /\ req[w].hdr[2] \in issued
        /\ req[w].at = BootTime /\ now = BootTime
        /\ BootTime % TicksPerSecond # 0

\* C8: every protected request is classified one way: "Token required" when
\* the header is not 'Bearer <token>', "Token expired" when the token is well
\* signed and its expiry has passed, "Invalid token" for every other failure
\* (bad signature, malformed token, other algorithm, not-before in the
\* future), each with status 401; otherwise the request is admitted.
C8_Classification ==
    \A w \in Workers :
        req[w].endpoint \in ProtectedEndpoints =>
            LET hdr == req[w].hdr
                t == req[w].at
                bearer == Len(hdr) = 2 /\ hdr[1] \in {"Bearer", "bearer", "BEARER"}
            IN  IF ~bearer THEN resp[w] = Response(401, "Token required")
                ELSE LET expired == hdr[2].claims.exp * TicksPerSecond <= t
                         early == hdr[2].claims.nbf * TicksPerSecond > t
                     IN  /\ (WellSigned(hdr[2]) /\ expired) =>
                                resp[w] = Response(401, "Token expired")
                         /\ (~WellSigned(hdr[2]) \/ (early /\ ~expired)) =>
                                resp[w] = Response(401, "Invalid token")
                         /\ (WellSigned(hdr[2]) /\ ~expired /\ ~early) =>
                                resp[w].code # 401

\* A well-signed token whose not-before is in the future is refused as
\* invalid.
C8_Witness ==
    \E w \in Workers :
        /\ req[w].endpoint \in ProtectedEndpoints
        /\ Len(req[w].hdr) = 2
        /\ WellSigned(req[w].hdr[2])
        /\ req[w].hdr[2].claims.nbf * TicksPerSecond > req[w].at
        /\ resp[w] = Response(401, "Invalid token")

\* The two writes of one pulse on pin p.
Window(p) == <<<<p, HIGH>>, <<p, LOW>>>>

\* C9: every call of activate_gpio_pin that has returned made exactly one
\* HIGH-then-LOW window on its pin (a call that raised made that window, or
\* none if it was the HIGH write that raised); while one call's window is
\* open no other call's is and the other pin is LOW; and the pulses made are
\* one per call: as many as the calls that completed their window, so N
\* calls make exactly N pulses.
C9_SequentialPulses ==
    /\ \A w \in Workers :
          (pc[w] \in {"release", "activated"} \/ (pc[w] = "done" /\ act[w] # NoAct))
              => IF exc[w]
                 THEN writes[w] = Window(act[w].pin) \/ writes[w] = <<>>
                 ELSE writes[w] = Window(act[w].pin)
    /\ \A w \in Workers :
          InFlight(w) =>
              /\ writes[w] = <<<<act[w].pin, HIGH>>>>
              /\ \A v \in Workers \ {w} : Len(writes[v]) \in {0, 2}
              /\ \A p \in OutPins \ {act[w].pin} : pinLevel[p] = LOW
    /\ pulses >= Cardinality({w \in Workers : Len(writes[w]) = 2})
    /\ pulses <= served
                  - Cardinality({w \in Workers : pc[w] # "idle" /\ Len(writes[w]) < 2})

\* As many calls as there are workers were made at once, on both pins; all
\* have finished, each with its window, and that many pulses were made.
C9_Witness ==
    /\ served = NumWorkers
    /\ \A w \in Workers : pc[w] = "done" /\ writes[w] = Window(act[w].pin)
    /\ \E w, v \in Workers : act[w].pin = PIN_DOOR_CONTROL /\ act[v].pin = PIN_BUZZER
    /\ pulses = NumWorkers

\* C10: a health check is answered 200 "healthy" whatever header it carries,
\* having read no sensor, taken no lock and written no pin, and it can be
\* served in every state in which a worker is there to take it, whoever holds
\* the relay lock.
C10_HealthAlwaysAnswers ==
    /\ \A w \in Workers :
          req[w].endpoint = "health_check" =>
              /\ pc[w] = "done"
              /\ resp[w] = Response(200, "healthy")
              /\ NoSensorRead(w)
              /\ NoActuation(w)
    /\ (served < MaxRequests /\ \E w \in Workers : pc[w] \in {"idle", "done"})
          => \E w \in Workers : \A h \in ServiceHeaders : ENABLED HealthCheck(w, h)

\* A health check without a token was answered while a pulse was in flight.
C10_Witness ==
    \E w, v \in Workers :
        /\ req[w].endpoint = "health_check" /\ req[w].hdr = <<>>
        /\ resp[w] = Response(200, "healthy")
        /\ InFlight(v) /\ relay_lock = v /\ pinLevel[act[v].pin] = HIGH

(* ------------------------------- C11 ---------------------------------- *)
\* The worker is inside the with block of activate_gpio_pin.
InWithBlock(w) == pc[w] \in {"high", "hold", "low", "release"}

\* C11: a request in which a sensor read, the HIGH write or the hold raised
\* is answered with the generic 500 and nothing else of it is left behind:
\* relay_lock is held only by a worker still inside the with block, so once
\* the failed request is done the lock is not its own, every worker that is
\* not waiting for a held lock has a step to take, and a waiting worker can
\* take the lock as soon as it is free.
C11_FailureLeavesServiceUsable ==
    \A w \in Workers :
        /\ (relay_lock = w) => InWithBlock(w)
        /\ (resp[w].code = 500) =>
               /\ pc[w] = "done"
               /\ resp[w] = HandleException
               /\ relay_lock # w
        /\ (pc[w] = "done" /\ exc[w] /\ req[w].endpoint \in ProtectedEndpoints)
               => resp[w] = HandleException
        /\ (pc[w] = "acquire" /\ relay_lock = Free) => ENABLED Acquire(w)
        /\ InWithBlock(w) => ENABLED Handler(w)

\* A door request failed during its hold and was answered 500; another
\* request, which can only have taken the lock after that, is pulsing.
C11_Witness ==
    \E w, v \in Workers :
        /\ pc[w] = "done" /\ exc[w] /\ resp[w] = HandleException
        /\ writes[w] = Window(PIN_DOOR_CONTROL)
        /\ req[v].endpoint \in {"door_up", "door_down"}
        /\ InFlight(v)

(* ------------------------------- C12 ---------------------------------- *)
\* The one answer of a refused login.
Unauthorized == Response(401, "Unauthorized Access")

\* C12: get_token answers with a token only for a login whose username is
\* known and whose password matches the stored hash, and the token is for
\* that username; every other login (unknown username, or known username
\* with a wrong password) gets the same 401 without a token, and nothing is
\* signed for it: every token ever issued is for a known user.
C12_TokenOnlyAfterPassword ==
    /\ \A w \in Workers :
        (req[w].endpoint = "get_token" /\ pc[w] = "done") =>
            LET login == req[w].login
                known == login.username \in DOMAIN users
                matches == known /\ CheckPasswordHash(users[login.username],
                                                      login.password)
            IN  /\ matches =>
                    /\ resp[w].code = 200
                    /\ resp[w].token \in issued
                    /\ WellSigned(resp[w].token)
                    /\ resp[w].token.claims.sub = login.username
                /\ ~matches => resp[w] = Unauthorized
    /\ \A token \in issued : token.claims.sub \in DOMAIN users

\* A login with the right username and a wrong password has been refused,
\* and no token exists.
C12_Witness ==
    \E w \in Workers :
        /\ req[w].endpoint = "get_token" /\ pc[w] = "done"
        /\ req[w].login.username = USER_NAME
        /\ req[w].login.password # USER_PASSWORD
        /\ resp[w] = Unauthorized
        /\ issued = {}

(* ------------------------------- C13 ---------------------------------- *)
\* Worker w serves a protected request that presents token as its bearer
\* token.
Presents(w, token) ==
    /\ req[w].endpoint \in ProtectedEndpoints
    /\ req[w].hdr = <<"Bearer", token>>

\* C13 as stated: a token issued when the clock read t0 is accepted at every
\* t with t0 <= t < t0 + 30 min and at no t >= t0 + 30 min.
C13_WindowFromIssueInstant ==
    \A w \in Workers : \A i \in issuedAt :
        (Presents(w, i[1]) /\ i[2] <= req[w].at) =>
            (Admitted(w) <=> req[w].at < i[2] + LifetimeTicks)

\* C13, amended: a token issued when the clock read t0 carries issued-at and
\* not-before equal to t0 cut to the whole second, and an expiry 30 minutes
\* after that second; it is accepted at every t from t0 up to, and not
\* including, that expiry and at no later t. The window is shorter than 30
\* minutes by the fraction of a second that was cut, and it is fixed by the
\* token alone.
C13_WindowFromTokenFields ==
    /\ \A i \in issuedAt :
        /\ WellSigned(i[1])
        /\ i[1].claims.iat = Timegm(i[2])
        /\ i[1].claims.nbf = Timegm(i[2])
        /\ i[1].claims.exp = Timegm(i[2]) + TOKEN_LIFETIME_MIN * 60
    /\ \A w \in Workers : \A i \in issuedAt :
        (Presents(w, i[1]) /\ i[2] <= req[w].at) =>
            (Admitted(w) <=>
                req[w].at < (Timegm(i[2]) + TOKEN_LIFETIME_MIN * 60)
                                * TicksPerSecond)

\* A token issued at an instant that is not a whole second is refused as
\* expired less than 30 minutes after it was issued.
C13_Witness ==
    \E w \in Workers : \E i \in issuedAt :
        /\ Presents(w, i[1])
        /\ i[2] % TicksPerSecond # 0
        /\ i[2] <= req[w].at /\ req[w].at < i[2] + LifetimeTicks
        /\ resp[w] = Response(401, "Token expired")

(* ------------------------------- C14 ---------------------------------- *)
\* The pulse of the door-control pin that toggle_door asks for.
DoorPulse == [pin |-> PIN_DOOR_CONTROL, duration |-> PULSE_MS]

\* What request w has made of its activation so far: nothing, the HIGH
\* write, or the whole window, under one acquisition of the lock.
PulseSoFar(w) ==
    /\ acquired[w] <= 1
    /\ writes[w] \in {<<>>, <<<<PIN_DOOR_CONTROL, HIGH>>>>,
                      Window(PIN_DOOR_CONTROL)}

\* C14: a door_up whose is_door_up() read was false (door_down: whose
\* is_door_down() read was false) calls activate_gpio_pin once, for the
\* door-control pin and 0.5 s; it answers "Door is going up" ("down") only
\* when its HIGH and LOW writes are both made and it has given the lock back;
\* and the sensor read of the guard is the only one it makes.
C14_PulseThenAnswer ==
    \A w \in Workers :
        LET e == req[w].endpoint
            guard == IF e = "door_up" THEN rdUp[w] ELSE rdDown[w]
            other == IF e = "door_up" THEN rdDown[w] ELSE rdUp[w]
            going == Response(200, IF e = "door_up" THEN "Door is going up"
                                   ELSE "Door is going down")
        IN  e \in {"door_up", "door_down"} =>
            /\ guard = HIGH =>
                /\ act[w] = DoorPulse
                /\ PulseSoFar(w)
                /\ other = NONE /\ snap[w] = NoSnap
                /\ pc[w] = "done" =>
                       \/ resp[w] = going
                       \/ exc[w] /\ resp[w] = HandleException
            /\ resp[w] = going =>
                /\ guard = HIGH
                /\ pc[w] = "done"
                /\ writes[w] = Window(PIN_DOOR_CONTROL)
                /\ acquired[w] = 1
                /\ relay_lock # w
            /\ resp[w].body \in {"Door is going up", "Door is going down"}
                   => resp[w] = going

\* A door_up read its sensor as not up, pulsed and answered "Door is going
\* up", with the pin back LOW and the lock free.
C14_Witness ==
    \E w \in Workers :
        /\ req[w].endpoint = "door_up" /\ rdUp[w] = HIGH
        /\ resp[w] = Response(200, "Door is going up")
        /\ writes[w] = Window(PIN_DOOR_CONTROL)
        /\ pinLevel[PIN_DOOR_CONTROL] = LOW /\ relay_lock = Free

(* ------------------------------- C15 ---------------------------------- *)
\* The worker is about to read a sensor: the guard of door_up or door_down,
\* or one of the two tests of door_status.
AtSensorRead(w) ==
    pc[w] \in {"door_up", "door_down", "door_status", "door_status_up"}

\* C15: no sensor read and no token check waits for relay_lock. In every
\* state, whoever holds the lock, a worker about to read a sensor can make
\* that read, and a protected request can be taken and its token checked
\* whenever a worker is there to take it; a door_status request never takes
\* the lock; and the only worker without a step to take is one at the entry
\* of the with block while another worker holds the lock.
C15_OnlyActivationWaits ==
    /\ \A w \in Workers :
        /\ AtSensorRead(w) =>
               ENABLED (\/ DoorUp(w, FALSE) \/ DoorDown(w, FALSE)
                        \/ DoorStatusDown(w, FALSE) \/ DoorStatusUp(w, FALSE))
        /\ (pc[w] \notin {"idle", "done"} /\ ~ENABLED Handler(w)) =>
               /\ pc[w] = "acquire"
               /\ relay_lock \notin {Free, w}
        /\ req[w].endpoint = "door_status" => NoActuation(w)
    /\ (served < MaxRequests /\ \E w \in Workers : pc[w] \in {"idle", "done"})
          => \E w \in Workers :
                \A e \in ProtectedEndpoints : \A h \in ServiceHeaders :
                    ENABLED Protected(w, e, h)

\* A door_status request is between its two sensor reads while another
\* worker holds the lock with its pin HIGH.
C15_Witness ==
    \E w, v \in Workers :
        /\ pc[w] = "door_status_up" /\ rdDown[w] # NONE
        /\ InFlight(v) /\ relay_lock = v /\ pinLevel[act[v].pin] = HIGH

(* ------------------------------- C16 ---------------------------------- *)
\* C16: under fair scheduling every request that has reached
\* activate_gpio_pin, waiting for the lock or holding it, comes to its end
\* with the lock given back, however many others contend: no request waits
\* for ever and the lock is never held for ever.
C16_EveryActivationReturns ==
    \A w \in Workers :
        (pc[w] = "acquire" \/ relay_lock = w) ~>
            (pc[w] = "done" /\ relay_lock # w)

\* A request waits at the with block while every other worker is inside
\* activate_gpio_pin too, one of them holding the lock with its pin HIGH.
C16_Witness ==
    \E w \in Workers :
        /\ pc[w] = "acquire"
        /\ \E v \in Workers : InFlight(v) /\ relay_lock = v
        /\ \A v \in Workers : act[v] # NoAct /\ pc[v] # "done"

(* ------------------------------- C17 ---------------------------------- *)
\* The answer door_status gives for the levels it read; up is NONE when the
\* up sensor was not read.
StatusOf(down, up) ==
    IF down = LOW THEN "down" ELSE IF up = LOW THEN "up" ELSE "in_transition"

\* C17: the answer of door_status is a function of the sensor levels that
\* this very call read and of nothing else: the call starts with no level
\* known, whatever was read or pulsed before; its answer is the one that
\* belongs to the levels it read; and two calls that read the same levels
\* give the same answer, whatever else differs between them.
C17_StatusFromOwnReads ==
    /\ \A w \in Workers :
        req[w].endpoint = "door_status" =>
            /\ pc[w] = "door_status" => rdDown[w] = NONE /\ rdUp[w] = NONE
            /\ pc[w] = "door_status_up" => rdDown[w] = HIGH /\ rdUp[w] = NONE
            /\ resp[w].code = 200 =>
                /\ rdDown[w] # NONE
                /\ rdUp[w] = NONE <=> rdDown[w] = LOW
                /\ resp[w].body = StatusOf(rdDown[w], rdUp[w])
    /\ \A w, v \in Workers :
        (/\ req[w].endpoint = "door_status" /\ resp[w].code = 200
         /\ req[v].endpoint = "door_status" /\ resp[v].code = 200
         /\ rdDown[w] = rdDown[v] /\ rdUp[w] = rdUp[v]) => resp[w] = resp[v]

\* After a pulse has been made a status request read the down sensor clear
\* and the up sensor triggered, and answered "up".
C17_Witness ==
    \E w \in Workers :
        /\ req[w].endpoint = "door_status"
        /\ rdDown[w] = HIGH /\ rdUp[w] = LOW
        /\ resp[w] = Response(200, "up")
        /\ pulses > 0

(* ------------------------------- C18 ---------------------------------- *)
\* C18: the guard of door_up and door_down is read once, before the lock is
\* asked for, and is not looked at again. No step of a request changes a
\* sensor level the request has read; a request that stops waiting for the
\* lock has taken it and goes on to its HIGH write whatever the sensors show
\* by then; and a request that has taken the lock is one whose guard read
\* was "not there".
C18_GuardReadOnce ==
    [][\A w \in Workers :
        /\ (served' = served /\ rdUp[w] # NONE) => rdUp'[w] = rdUp[w]
        /\ (served' = served /\ rdDown[w] # NONE) => rdDown'[w] = rdDown[w]
        /\ (pc[w] = "acquire" /\ pc'[w] # "acquire") =>
               /\ pc'[w] = "high" /\ relay_lock' = w
               /\ acquired'[w] = acquired[w] + 1
        /\ (pc[w] = "acquire" /\ req[w].endpoint = "door_up") => rdUp[w] = HIGH
        /\ (pc[w] = "acquire" /\ req[w].endpoint = "door_down")
               => rdDown[w] = HIGH
    ]_vars

\* Two door_up requests were served side by side and both read the door as
\* not up: one has made its pulse, the other is holding the pin HIGH while
\* the up sensor is triggered.
C18_Witness ==
    \E w, v \in Workers :
        /\ w # v
        /\ req[w].endpoint = "door_up" /\ req[v].endpoint = "door_up"
        /\ rdUp[w] = HIGH /\ rdUp[v] = HIGH
        /\ writes[w] = Window(PIN_DOOR_CONTROL)
        /\ pc[v] = "hold" /\ pinLevel[PIN_DOOR_CONTROL] = HIGH
        /\ sensor[PIN_UP_SENSOR] = LOW

(* ------------------------------- C19 ---------------------------------- *)
\* The output pin the endpoint may drive; that of NoAct for an endpoint that
\* drives none.
PinOf(endpoint) ==
    IF endpoint \in {"door_up", "door_down"} THEN PIN_DOOR_CONTROL
    ELSE IF endpoint = "buzz_buzzer" THEN PIN_BUZZER
    ELSE NoAct.pin

\* C19: every gpio.output of a door_up or door_down is on the door-control
\* pin and every one of a buzz_buzzer call is on the buzzer pin; a
\* door_status, health_check or get_token request, and every request
\* answered 401, has written no pin and not taken the lock; and a pin is HIGH
\* only under the lock of a request whose own pin it is.
C19_OwnPinOnly ==
    /\ \A w \in Workers :
        /\ \A i \in 1..Len(writes[w]) : writes[w][i][1] = PinOf(req[w].endpoint)
        /\ act[w] # NoAct => act[w].pin = PinOf(req[w].endpoint)
        /\ (PinOf(req[w].endpoint) = NoAct.pin \/ resp[w].code = 401)
               => NoActuation(w) /\ relay_lock # w
    /\ \A p \in OutPins :
        pinLevel[p] = HIGH =>
            \E w \in Workers : relay_lock = w /\ PinOf(req[w].endpoint) = p

\* A door_down has made its pulse on the door-control pin, and a buzz_buzzer
\* call holds the buzzer pin HIGH while the door-control pin is LOW.
C19_Witness ==
    \E w, v \in Workers :
        /\ req[w].endpoint = "door_down"
        /\ writes[w] = Window(PIN_DOOR_CONTROL)
        /\ req[v].endpoint = "buzz_buzzer"
        /\ writes[v] = <<<<PIN_BUZZER, HIGH>>>>
        /\ pinLevel = [p \in OutPins |-> IF p = PIN_BUZZER THEN HIGH ELSE LOW]

(* ------------------------------- C20 ---------------------------------- *)
\* The level request w got from the sensor that guards its endpoint, NONE
\* while it has got none.
GuardRead(w) == IF req[w].endpoint = "door_up" THEN rdUp[w] ELSE rdDown[w]

\* C20: a door_up or door_down whose guarding gpio.input raised has ended
\* with the generic 500 and has neither asked for the lock nor written a pin:
\* a request that passed the token check and is over without a level from
\* its guard is that 500 and nothing else, and activate_gpio_pin is entered
\* only with a level read.
C20_FailedGuardDoesNothing ==
    \A w \in Workers :
        req[w].endpoint \in {"door_up", "door_down"} =>
            /\ (auth[w] = "ok" /\ pc[w] = "done" /\ GuardRead(w) = NONE) =>
                   /\ resp[w] = HandleException
                   /\ NoActuation(w)
                   /\ relay_lock # w
            /\ (act[w] # NoAct \/ acquired[w] > 0 \/ writes[w] # <<>>) =>
                   GuardRead(w) = HIGH

\* The up sensor could not be read for a door_up that had passed the token
\* check, while the door was not up: the answer is 500, the pins are LOW and
\* the lock is free.
C20_Witness ==
    \E w \in Workers :
        /\ req[w].endpoint = "door_up" /\ auth[w] = "ok"
        /\ pc[w] = "done" /\ rdUp[w] = NONE
        /\ resp[w] = HandleException
        /\ sensor[PIN_UP_SENSOR] = HIGH
        /\ pinLevel = [p \in OutPins |-> LOW] /\ relay_lock = Free
        /\ pulses = 0

====
